---- MODULE Spec2Model ----
(***************************************************************************)
(* A model of src/model/q2p.py: the recursive query interpreter            *)
(* Q2P.forward with its operators (tensors are modelled by their shapes,   *)
(* every torch operation by its shape rule and the error it raises), the   *)
(* tied entity-embedding / decoder weight, max-pool scoring and the        *)
(* self-attention forward pass (the last two on integer-valued tensors).   *)
(*                                                                         *)
(* Python indexes from 0 and TLA+ from 1: the tag batched_structured_      *)
(* query[0] is q[1] here, batched_structured_query[1] is q[2], and so on.  *)
(***************************************************************************)
EXTENDS Integers, Sequences, FiniteSets, TLC

VARIABLES
    pc,                       \* "ready" before a call, "done" after it
    query, label,             \* the arguments of Q2P.forward
    result, log,              \* what the call returned, and the calls it made
    heap,                     \* the parameter buffers: buffer id -> values
    entity_embedding_weight,  \* the buffer entity_embedding.weight refers to
    decoder_weight,           \* the buffer decoder.weight refers to
    last_update,              \* the module the last update went through
    scored_encoding,          \* the particle set given to Q2P.scoring
    scored_query_scores,      \* its per-particle, per-entity scores
    scored_prediction,        \* the scores returned
    attn,                     \* a SelfAttention module's weights
    attended_particles,       \* the particle set given to it
    attention_tensors         \* the tensors its forward pass computes

interpreter_vars == <<query, label, result, log>>

tied_vars == <<heap, entity_embedding_weight, decoder_weight, last_update>>

scoring_vars == <<scored_encoding, scored_query_scores, scored_prediction>>

attention_vars == <<attn, attended_particles, attention_tensors>>

vars == <<pc, interpreter_vars, tied_vars, scoring_vars, attention_vars>>

(***************************************************************************)
(* Bounds of the model.                                                    *)
(***************************************************************************)
MaxNodes == 4
MaxBatch == 2
num_particles == 2
embedding_size == 4
num_entities == 3
MaxWeight == 2
MaxScore == 1

(***************************************************************************)
(* Values: a tensor (its shape), Python's None, or a raised exception.     *)
(***************************************************************************)
Tensor(s) == [kind |-> "tensor", shape |-> s, exc |-> "none"]

NoneValue == [kind |-> "None", shape |-> <<>>, exc |-> "none"]

Raise(e) == [kind |-> "error", shape |-> <<>>, exc |-> e]

IsTensor(v) == v.kind = "tensor"

IsError(v) == v.kind = "error"

\* An exception already raised propagates; None where a tensor is needed
\* raises a TypeError.
Fail(v) == IF IsError(v) THEN v ELSE Raise("TypeError")

\* Statements run in order: `rest` is what follows the statement that
\* computed v, run only when v is a tensor; an exception ends the call.
Then(v, rest(_)) == IF IsTensor(v) THEN rest(v) ELSE Fail(v)

\* A local variable: `body` is run with the value just computed.
With(v, body(_)) == body(v)

Last(s) == s[Len(s)]

SetLast(s, d) == [i \in 1..Len(s) |-> IF i = Len(s) THEN d ELSE s[i]]

MaxOf(a, b) == IF a >= b THEN a ELSE b

\* A shape padded on the left with 1s to n dimensions (broadcasting aligns
\* shapes on the right).
Pad(s, n) == [i \in 1..n |-> IF i <= n - Len(s) THEN 1 ELSE s[i - (n - Len(s))]]

BroadcastShape(s, t) ==
    LET n == MaxOf(Len(s), Len(t))
        a == Pad(s, n)
        b == Pad(t, n)
    IN  [i \in 1..n |-> IF a[i] = 1 THEN b[i] ELSE a[i]]

Broadcastable(s, t) ==
    LET n == MaxOf(Len(s), Len(t))
        a == Pad(s, n)
        b == Pad(t, n)
    IN  \A i \in 1..n : a[i] = b[i] \/ a[i] = 1 \/ b[i] = 1

\* x + y, x * y, x - y, x / y: elementwise with broadcasting.
Elementwise(x, y) ==
    IF ~IsTensor(x) THEN Fail(x)
    ELSE IF ~IsTensor(y) THEN Fail(y)
    ELSE IF Broadcastable(x.shape, y.shape)
         THEN Tensor(BroadcastShape(x.shape, y.shape))
         ELSE Raise("RuntimeError")

\* sigmoid, tanh, GELU, sqrt, pow, softmax, 1 - x, x / c: the shape is kept.
Pointwise(x) == IF IsTensor(x) THEN x ELSE Fail(x)

\* nn.Dropout: the shape is kept in training and in evaluation mode.
dropout(x) == IF IsTensor(x) THEN x ELSE Fail(x)

\* nn.Linear(in_features, out_features) applied to x.
Linear(in_features, out_features, x) ==
    IF ~IsTensor(x) THEN Fail(x)
    ELSE IF Len(x.shape) >= 1 /\ Last(x.shape) = in_features
         THEN Tensor(SetLast(x.shape, out_features))
         ELSE Raise("RuntimeError")

\* x.mean(-1, keepdim=True)
MeanLast(x) ==
    IF ~IsTensor(x) THEN Fail(x)
    ELSE IF Len(x.shape) >= 1 THEN Tensor(SetLast(x.shape, 1))
         ELSE Raise("IndexError")

\* LayerNorm.forward with weight and bias of shape [hidden_size].
LayerNorm(hidden_size, x) ==
    Then(MeanLast(x), LAMBDA u :
    Then(MeanLast(Pointwise(Elementwise(x, u))), LAMBDA s :
    Then(Elementwise(Elementwise(x, u), Pointwise(Pointwise(s))), LAMBDA xn :
         Elementwise(Elementwise(Tensor(<<hidden_size>>), xn),
                     Tensor(<<hidden_size>>)))))

\* K.permute(0, 2, 1): the tensor must have exactly three dimensions.
Permute021(x) ==
    IF ~IsTensor(x) THEN Fail(x)
    ELSE IF Len(x.shape) = 3 THEN Tensor(<<x.shape[1], x.shape[3], x.shape[2]>>)
         ELSE Raise("RuntimeError")

\* torch.matmul of two batched matrices [b, n, m] x [b, m, p].
MatMul(x, y) ==
    IF ~IsTensor(x) THEN Fail(x)
    ELSE IF ~IsTensor(y) THEN Fail(y)
    ELSE IF /\ Len(x.shape) = 3 /\ Len(y.shape) = 3
            /\ x.shape[3] = y.shape[2]
            /\ Broadcastable(<<x.shape[1]>>, <<y.shape[1]>>)
         THEN Tensor(<<BroadcastShape(<<x.shape[1]>>, <<y.shape[1]>>)[1],
                       x.shape[2], y.shape[3]>>)
         ELSE Raise("RuntimeError")

\* SelfAttention.forward on shapes: three linear maps of the input, the
\* scaled scores Q K^T, their softmax, and its product with V.
SelfAttention(hidden_size, particles) ==
    Then(Linear(hidden_size, hidden_size, particles), LAMBDA K :
    Then(Linear(hidden_size, hidden_size, particles), LAMBDA V :
    Then(Linear(hidden_size, hidden_size, particles), LAMBDA Q :
    Then(Pointwise(MatMul(Q, Permute021(K))), LAMBDA attention_scores :
    Then(Pointwise(attention_scores), LAMBDA attention_probs :
         MatMul(attention_probs, V))))))

\* FFN.forward
FFN(hidden_size, particles) ==
    Linear(hidden_size, hidden_size,
           dropout(Pointwise(Linear(hidden_size, hidden_size, dropout(particles)))))

\* nn.Embedding lookup: the index shape followed by the embedding size.
Embedding(ids) == Tensor(ids \o <<embedding_size>>)

\* torch.unsqueeze(x, 1)
Unsqueeze1(x) ==
    IF ~IsTensor(x) THEN Fail(x)
    ELSE IF Len(x.shape) >= 1
         THEN Tensor(<<x.shape[1], 1>> \o SubSeq(x.shape, 2, Len(x.shape)))
         ELSE Raise("IndexError")

\* The sizes of a shape with dimension 1 (the particle axis) left out.
DropDim1(s) == <<s[1]>> \o SubSeq(s, 3, Len(s))

RECURSIVE SumDim1(_)
SumDim1(list) ==
    IF list = <<>> THEN 0 ELSE list[1].shape[2] + SumDim1(Tail(list))

\* torch.cat(list, dim=1): a non-empty list of tensors that agree in every
\* dimension but the second.
Cat1(list) ==
    IF list = <<>> THEN Raise("RuntimeError")
    ELSE IF \E i \in 1..Len(list) : ~IsTensor(list[i])
         THEN Fail(list[CHOOSE i \in 1..Len(list) : ~IsTensor(list[i])])
    ELSE IF /\ \A i \in 1..Len(list) : Len(list[i].shape) >= 2
            /\ \A i \in 1..Len(list) :
                   /\ Len(list[i].shape) = Len(list[1].shape)
                   /\ DropDim1(list[i].shape) = DropDim1(list[1].shape)
         THEN Tensor(<<list[1].shape[1], SumDim1(list)>>
                     \o SubSeq(list[1].shape, 3, Len(list[1].shape)))
         ELSE Raise("RuntimeError")

(***************************************************************************)
(* The call log.  Every method call of Q2P appends one event: the method,  *)
(* its caller, the position `at` of the query node whose forward frame it  *)
(* belongs to (the path of argument positions from the root), the shape of *)
(* the relation ids passed (<<>> when there are none), the arguments and   *)
(* the value returned.                                                     *)
(***************************************************************************)
Event(op, caller, at, rel, ins, out) ==
    [op |-> op, caller |-> caller, at |-> at, rel |-> rel, ins |-> ins, out |-> out]

Ret(val, events) == [val |-> val, log |-> events]

\* The expansion with a single offset shared by all particle slots.
ParticleCrusher_forward_OneOffset(batch_of_embeddings) ==
    IF ~IsTensor(batch_of_embeddings) THEN Fail(batch_of_embeddings)
    ELSE IF Len(batch_of_embeddings.shape) # 2 THEN Raise("ValueError")
    ELSE Elementwise(Tensor(<<batch_of_embeddings.shape[1], 1,
                              batch_of_embeddings.shape[2]>>),
                     Tensor(<<1, 1, embedding_size>>))

\* ParticleCrusher.forward: the shape must unpack into (batch_size,
\* embedding_size); the reshaped batch is added to off_sets of shape
\* [1, num_particles, embedding_size].
ParticleCrusher_forward(batch_of_embeddings) ==
    IF ~IsTensor(batch_of_embeddings) THEN Fail(batch_of_embeddings)
    ELSE IF Len(batch_of_embeddings.shape) # 2 THEN Raise("ValueError")
    ELSE Elementwise(Tensor(<<batch_of_embeddings.shape[1], 1,
                              batch_of_embeddings.shape[2]>>),
                     Tensor(<<1, num_particles, embedding_size>>))

\* query_scores.max(dim=1)
MaxDim1(x) ==
    IF ~IsTensor(x) THEN Fail(x)
    ELSE IF Len(x.shape) >= 2 /\ x.shape[2] >= 1 THEN Tensor(DropDim1(x.shape))
         ELSE Raise("IndexError")

\* Q2P.scoring: the decoder maps embedding_size to num_entities, then the
\* maximum over dimension 1.
scoring(query_encoding, at) ==
    With(MaxDim1(Linear(embedding_size, num_entities, query_encoding)),
         LAMBDA prediction_scores :
             Ret(prediction_scores,
                 <<Event("scoring", "loss_fnt", at, <<>>, <<query_encoding>>,
                         prediction_scores)>>))

\* LabelSmoothingLoss.forward (module `model`): a scalar for a [batch,
\* classes] prediction and one gold index per batch element.
LabelSmoothingLoss(pred, target) ==
    IF ~IsTensor(pred) THEN Fail(pred)
    ELSE IF ~IsTensor(target) THEN Fail(target)
    ELSE IF /\ Len(pred.shape) = 2 /\ Len(target.shape) = 1
            /\ pred.shape[1] = target.shape[1]
         THEN Tensor(<<>>)
         ELSE Raise("RuntimeError")

\* Q2P.loss_fnt
loss_fnt(query_encoding, labels, at) ==
    With(scoring(query_encoding, at), LAMBDA scored :
    With(LabelSmoothingLoss(scored.val, labels), LAMBDA _loss :
         Ret(_loss,
             <<Event("loss_fnt", "forward", at, <<>>, <<query_encoding>>, _loss)>>
             \o scored.log)))

\* Q2P.projection: a GRU-style update of the particles by the relation
\* embedding, layer norm, self-attention, layer norm.
projection(relation_ids, sub_query_encoding, caller, at) ==
    With(
        Then(Unsqueeze1(Embedding(relation_ids)), LAMBDA relation_transition :
        Then(Pointwise(Elementwise(
                 Linear(embedding_size, embedding_size, dropout(relation_transition)),
                 Linear(embedding_size, embedding_size, dropout(sub_query_encoding)))),
             LAMBDA z :
        Then(Pointwise(Elementwise(
                 Linear(embedding_size, embedding_size, dropout(relation_transition)),
                 Linear(embedding_size, embedding_size, dropout(sub_query_encoding)))),
             LAMBDA r :
        Then(Pointwise(Elementwise(
                 Linear(embedding_size, embedding_size, dropout(relation_transition)),
                 Linear(embedding_size, embedding_size,
                        dropout(Elementwise(sub_query_encoding, r))))),
             LAMBDA h_hat :
        Then(Elementwise(Elementwise(Pointwise(z), sub_query_encoding),
                         Elementwise(z, h_hat)),
             LAMBDA h :
        Then(LayerNorm(embedding_size, h), LAMBDA normed :
        Then(SelfAttention(embedding_size, dropout(normed)), LAMBDA attended :
             LayerNorm(embedding_size, attended)))))))),
        LAMBDA out :
            Ret(out, <<Event("projection", caller, at, relation_ids,
                             <<sub_query_encoding>>, out)>>))

\* One round of attention, layer norm, feed-forward with residual, layer norm.
Refine(x) ==
    Then(SelfAttention(embedding_size, x), LAMBDA attended :
    Then(LayerNorm(embedding_size, attended), LAMBDA normed :
    Then(FFN(embedding_size, normed), LAMBDA fed :
         LayerNorm(embedding_size, Elementwise(fed, normed)))))

\* Q2P.higher_projection: attention, layer norm, feed-forward with residual,
\* layer norm, then projection with the same relation ids.
higher_projection(relation_ids, sub_query_encoding, at) ==
    With(Refine(sub_query_encoding), LAMBDA particles :
    With(IF IsError(particles) THEN Ret(particles, <<>>)
         ELSE projection(relation_ids, particles, "higher_projection", at),
         LAMBDA inner :
             Ret(inner.val,
                 <<Event("higher_projection", "forward", at, relation_ids,
                         <<sub_query_encoding>>, inner.val)>> \o inner.log)))

\* Q2P.intersection: concatenation along the particle axis, the shape
\* unpacked into three sizes, a view of [batch_size, -1, embedding_size] and
\* two rounds of refinement.
intersection(sub_query_encoding_list) ==
    Then(Cat1(sub_query_encoding_list), LAMBDA all_subquery_encodings :
         IF Len(all_subquery_encodings.shape) # 3 THEN Raise("ValueError")
         ELSE Then(Refine(dropout(all_subquery_encodings)), LAMBDA flatten_particles :
                  Refine(dropout(flatten_particles))))

\* Q2P.negation: two rounds of refinement of one particle set.
negation(sub_query_encoding_list) ==
    Then(Refine(dropout(sub_query_encoding_list)), LAMBDA new_particles :
         Refine(dropout(new_particles)))

\* The union keeping only its first operand's particles.
union_first(sub_query_encoding_list) ==
    IF sub_query_encoding_list = <<>> THEN Raise("RuntimeError")
    ELSE sub_query_encoding_list[1]

\* Q2P.union: concatenation along the particle axis.
union(sub_query_encoding_list) == Cat1(sub_query_encoding_list)

(***************************************************************************)
(* Q2P.forward.  A query node is a tuple <<tag, ...>>: <<"e", ids>> with   *)
(* ids the shape of the nested list of entity ids (<<b>> for a flat batch  *)
(* of b ids, <<b, k>> for b lists of k ids), <<"p", rels, sub>> with rels  *)
(* the shape of the list of relation ids, <<"i", sub, ...>>,               *)
(* <<"u", sub, ...>> and <<"n", sub>>.                                     *)
(***************************************************************************)

\* The assertion with the unknown tag let through.
ValidTagsLax == {"p", "e", "i", "u", "n", "x"}

\* The assertion on entry (line 314).
ValidTags == {"p", "e", "i", "u", "n"}

\* The test made on the node's own tag instead of its sub-query's.
SubQueryIsAnchorOwnTag(q) == q[1] = "e"

\* batched_structured_query[2][0] == 'e' (line 319)
SubQueryIsAnchor(q) == q[3][1] = "e"

\* The particle set scored before it is returned.
ReturnValueScored(this_query_result, lab, at) ==
    IF lab.kind = "None" THEN scoring(this_query_result, at)
    ELSE loss_fnt(this_query_result, lab, at)

\* The value returned (lines 354-358): the node's particle set when there is
\* no label, the loss otherwise.
ReturnValue(this_query_result, lab, at) ==
    IF lab.kind = "None" THEN Ret(this_query_result, <<>>)
    ELSE loss_fnt(this_query_result, lab, at)

RECURSIVE forward(_, _, _)

\* The loops of lines 327-329 and 335-337: the sub-queries at positions
\* i..Len(q) evaluated in order; the first exception ends the loop.
RECURSIVE EvalSubs(_, _, _, _)
EvalSubs(q, at, i, acc) ==
    IF i > Len(q) THEN acc
    ELSE With(forward(q[i], at \o <<i>>, NoneValue), LAMBDA sub :
             IF IsError(sub.val)
             THEN [list |-> acc.list, log |-> acc.log \o sub.log, raised |-> sub.val]
             ELSE EvalSubs(q, at, i + 1,
                           [list |-> Append(acc.list, sub.val),
                            log |-> acc.log \o sub.log, raised |-> NoneValue]))

NoSubs == [list |-> <<>>, log |-> <<>>, raised |-> NoneValue]

\* The branch for "p" (lines 316-323).
forward_p(q, at) ==
    IF Len(q) < 3 THEN Ret(Raise("IndexError"), <<>>)
    ELSE With(forward(q[3], at \o <<3>>, NoneValue), LAMBDA sub :
             IF IsError(sub.val) THEN sub
             ELSE With(IF SubQueryIsAnchor(q)
                       THEN projection(q[2], sub.val, "forward", at)
                       ELSE higher_projection(q[2], sub.val, at),
                       LAMBDA applied : Ret(applied.val, sub.log \o applied.log)))

\* The branch for "i" (lines 325-331).
forward_i(q, at) ==
    With(EvalSubs(q, at, 2, NoSubs), LAMBDA subs :
        IF IsError(subs.raised) THEN Ret(subs.raised, subs.log)
        ELSE With(intersection(subs.list), LAMBDA out :
                 Ret(out, subs.log \o
                     <<Event("intersection", "forward", at, <<>>, subs.list, out)>>)))

\* The branch for "u" (lines 333-339).
forward_u(q, at) ==
    With(EvalSubs(q, at, 2, NoSubs), LAMBDA subs :
        IF IsError(subs.raised) THEN Ret(subs.raised, subs.log)
        ELSE With(union(subs.list), LAMBDA out :
                 Ret(out, subs.log \o
                     <<Event("union", "forward", at, <<>>, subs.list, out)>>)))

\* The branch for "n" (lines 341-343).
forward_n(q, at) ==
    IF Len(q) < 2 THEN Ret(Raise("IndexError"), <<>>)
    ELSE With(forward(q[2], at \o <<2>>, NoneValue), LAMBDA sub :
             IF IsError(sub.val) THEN sub
             ELSE With(negation(sub.val), LAMBDA out :
                      Ret(out, sub.log \o
                          <<Event("negation", "forward", at, <<>>, <<sub.val>>, out)>>)))

\* The branch for "e" (lines 345-349).
forward_e(q, at) ==
    IF Len(q) < 2 THEN Ret(Raise("IndexError"), <<>>)
    ELSE With(ParticleCrusher_forward(Embedding(q[2])), LAMBDA out :
             Ret(out, <<Event("to_particles", "forward", at, <<>>,
                              <<Embedding(q[2])>>, out)>>))

\* The if / elif chain on the tag (lines 316-352).
this_query_result(q, at) ==
    CASE q[1] = "p" -> forward_p(q, at)
      [] q[1] = "i" -> forward_i(q, at)
      [] q[1] = "u" -> forward_u(q, at)
      [] q[1] = "n" -> forward_n(q, at)
      [] q[1] = "e" -> forward_e(q, at)
      [] OTHER -> Ret(NoneValue, <<>>)

forward(q, at, lab) ==
    LET enter == <<Event("forward", "forward", at, <<>>, <<>>, NoneValue)>>
    IN  IF q[1] \notin ValidTags THEN Ret(Raise("AssertionError"), enter)
        ELSE With(this_query_result(q, at), LAMBDA this :
                 IF IsError(this.val) THEN Ret(this.val, enter \o this.log)
                 ELSE With(ReturnValue(this.val, lab, at), LAMBDA returned :
                          Ret(returned.val, enter \o this.log \o returned.log)))

(***************************************************************************)
(* The queries and labels a call is given: every tree of at most MaxNodes  *)
(* nodes over the five tags and the unknown tag "x", with the arities the  *)
(* callers may get wrong, over batches of 1..MaxBatch.                     *)
(***************************************************************************)
Batches == {1, MaxBatch}

Anchors == {<<"e", <<b>>>> : b \in Batches} \cup {<<"e", <<b, 1>>>> : b \in Batches}

Childless == {<<"p", <<1>>>>, <<"i">>, <<"u">>, <<"n">>, <<"x">>}

RECURSIVE QueriesOfSize(_)
QueriesOfSize(n) ==
    IF n = 1 THEN Anchors \cup Childless
    ELSE LET one == QueriesOfSize(n - 1)
             two == UNION {QueriesOfSize(k) \X QueriesOfSize(n - 1 - k) : k \in 1..(n - 2)}
         IN  {<<"p", <<b>>, s>> : b \in Batches, s \in one}
             \cup {<<t, s>> : t \in {"i", "u", "n"}, s \in one}
             \cup {<<t, st[1], st[2]>> : t \in {"i", "u", "n"}, st \in two}

Labels == {NoneValue} \cup {Tensor(<<b>>) : b \in Batches}

\* The query tree of n nodes the caller passes.
QueryOfSize(n) ==
    IF n = 1 THEN query \in Anchors \cup Childless
    ELSE \/ \E b \in Batches, s \in QueriesOfSize(n - 1) : query = <<"p", <<b>>, s>>
         \/ \E t \in {"i", "u", "n"}, s \in QueriesOfSize(n - 1) : query = <<t, s>>
         \/ \E t \in {"i", "u", "n"}, k \in 1..(n - 2) :
                \E a \in QueriesOfSize(k), b \in QueriesOfSize(n - 1 - k) :
                    query = <<t, a, b>>

\* The parts of the state a specification does not use.
NoInterpreter == query = <<>> /\ label = NoneValue /\ result = NoneValue /\ log = <<>>

NoTied ==
    /\ heap = <<>> /\ entity_embedding_weight = 0 /\ decoder_weight = 0
    /\ last_update = "none"

NoScoring ==
    scored_encoding = <<>> /\ scored_query_scores = <<>> /\ scored_prediction = <<>>

NoAttention == attn = <<>> /\ attended_particles = <<>> /\ attention_tensors = <<>>

Init ==
    /\ \E n \in 1..MaxNodes : QueryOfSize(n)
    /\ label = NoneValue
    /\ pc = "ready"
    /\ result = NoneValue
    /\ log = <<>>
    /\ NoTied /\ NoScoring /\ NoAttention

\* One call q2p_model(query) or q2p_model(query, label).
Forward ==
    /\ pc = "ready"
    /\ \E lab \in Labels :
           LET returned == forward(query, <<>>, lab)
           IN  /\ label' = lab
               /\ result' = returned.val
               /\ log' = returned.log
    /\ pc' = "done"
    /\ UNCHANGED <<query, tied_vars, scoring_vars, attention_vars>>

Next == Forward

Spec == Init /\ [][Next]_vars

(***************************************************************************)
(* The tied weights.  A parameter is a reference to a buffer of the heap;  *)
(* the entity table is modelled with one column: a buffer holds one vector *)
(* of one component per entity.                                            *)
(***************************************************************************)
Weights == [1..num_entities -> [1..1 -> (0 - MaxWeight)..MaxWeight]]

\* The constructor with the decoder left with the weight nn.Linear gave it.
Q2P_init_untied(embedding_init, decoder_init) ==
    [heap |-> <<embedding_init, decoder_init>>,
     entity_embedding_weight |-> 1,
     decoder_weight |-> 2]

\* Q2P.__init__, lines 109-122: nn.Embedding allocates the entity table,
\* nn.Linear allocates a weight of its own, and decoder.weight is then bound
\* to the entity table's parameter; the weight nn.Linear allocated is no
\* longer referred to and is dropped.
Q2P_init(embedding_init, decoder_init) ==
    [heap |-> <<embedding_init>>,
     entity_embedding_weight |-> 1,
     decoder_weight |-> 1]

InitTied ==
    /\ \E embedding_init \in Weights, decoder_init \in Weights :
           LET built == Q2P_init(embedding_init, decoder_init)
           IN  /\ heap = built.heap
               /\ entity_embedding_weight = built.entity_embedding_weight
               /\ decoder_weight = built.decoder_weight
    /\ last_update = "none"
    /\ pc = "ready"
    /\ NoInterpreter /\ NoScoring /\ NoAttention

\* An in-place update of one row of entity_embedding.weight.
UpdateEmbedding ==
    /\ \E row \in 1..num_entities, w \in (0 - MaxWeight)..MaxWeight :
           heap' = [heap EXCEPT ![entity_embedding_weight][row] = <<w>>]
    /\ last_update' = "entity_embedding"
    /\ UNCHANGED <<pc, entity_embedding_weight, decoder_weight,
                   interpreter_vars, scoring_vars, attention_vars>>

\* An in-place update of one row of decoder.weight.
UpdateDecoder ==
    /\ \E row \in 1..num_entities, w \in (0 - MaxWeight)..MaxWeight :
           heap' = [heap EXCEPT ![decoder_weight][row] = <<w>>]
    /\ last_update' = "decoder"
    /\ UNCHANGED <<pc, entity_embedding_weight, decoder_weight,
                   interpreter_vars, scoring_vars, attention_vars>>

NextTied == UpdateEmbedding \/ UpdateDecoder

SpecTied == InitTied /\ [][NextTied]_vars

(***************************************************************************)
(* Q2P.scoring on values.  One batch element, num_particles particles and  *)
(* embedding vectors of one integer component: query_encoding[b][n] is a    *)
(* vector, the decoder weight holds one vector per entity.                 *)
(***************************************************************************)
ScoreValues == (0 - MaxScore)..MaxScore

RECURSIVE Dot(_, _)
Dot(x, w) == IF x = <<>> THEN 0 ELSE x[1] * w[1] + Dot(Tail(x), Tail(w))

\* self.decoder(query_encoding): a linear map without bias, one output per
\* entity.
decoder(weight, encoding) ==
    [b \in 1..Len(encoding) |->
        [n \in 1..Len(encoding[b]) |->
            [e \in 1..Len(weight) |-> Dot(encoding[b][n], weight[e])]]]

\* The scores of the first particle taken for the pooled scores.
max_dim1_first(scores) ==
    [b \in 1..Len(scores) |-> scores[b][1]]

\* The running maximum of column e over the particles n..Len(rows).
RECURSIVE MaxFrom(_, _, _, _)
MaxFrom(rows, e, n, best) ==
    IF n > Len(rows) THEN best
    ELSE MaxFrom(rows, e, n + 1, IF rows[n][e] > best THEN rows[n][e] ELSE best)

\* query_scores.max(dim=1): for every batch element and entity the maximum
\* over the particle axis.
max_dim1(scores) ==
    [b \in 1..Len(scores) |->
        [e \in 1..Len(scores[b][1]) |-> MaxFrom(scores[b], e, 2, scores[b][1][e])]]

InitScoring ==
    /\ scored_encoding \in [1..1 -> [1..num_particles -> [1..1 -> ScoreValues]]]
    /\ heap \in [1..1 -> [1..num_entities -> [1..1 -> ScoreValues]]]
    /\ entity_embedding_weight = 1
    /\ decoder_weight = 1
    /\ last_update = "none"
    /\ scored_query_scores = <<>>
    /\ scored_prediction = <<>>
    /\ pc = "ready"
    /\ NoInterpreter /\ NoAttention

\* One call of Q2P.scoring.
Scoring ==
    /\ pc = "ready"
    /\ scored_query_scores' = decoder(heap[decoder_weight], scored_encoding)
    /\ scored_prediction' = max_dim1(scored_query_scores')
    /\ pc' = "done"
    /\ UNCHANGED <<scored_encoding, tied_vars, interpreter_vars, attention_vars>>

NextScoring == Scoring

SpecScoring == InitScoring /\ [][NextScoring]_vars

(***************************************************************************)
(* SelfAttention.forward on values.  One batch element and hidden_size 1:  *)
(* a particle is one integer and a linear layer a weight w and a bias b.   *)
(* The softmax of the scaled scores and its product with V are kept as     *)
(* their terms: attention_output[i] lists, for every particle j, the score *)
(* of i against j and the value V[j] it weighs, which determine the        *)
(* output row exactly.                                                     *)
(***************************************************************************)
LinearLayers == [w : 0..MaxScore, b : 0..MaxScore]

\* nn.Linear applied to every particle.
LinearValues(layer, x) == [i \in 1..Len(x) |-> layer.w * x[i] + layer.b]

\* SelfAttention.forward, lines 40-58.
SelfAttention_forward(module, x) ==
    LET K == LinearValues(module.query, x)
        V == LinearValues(module.query, x)
        Q == LinearValues(module.query, x)
        attention_scores == [i \in 1..Len(x) |-> [j \in 1..Len(x) |-> Q[i] * K[j]]]
        attention_output ==
            [i \in 1..Len(x) |-> [j \in 1..Len(x) |-> <<attention_scores[i][j], V[j]>>]]
    IN  [K |-> K, V |-> V, Q |-> Q,
         attention_scores |-> attention_scores,
         attention_output |-> attention_output]

InitAttention ==
    /\ attn \in [query : LinearLayers, key : LinearLayers, value : LinearLayers]
    /\ attended_particles \in [1..num_particles -> 0..MaxScore]
    /\ attention_tensors = <<>>
    /\ pc = "ready"
    /\ NoInterpreter /\ NoTied /\ NoScoring

\* One call of a SelfAttention module.
AttentionForward ==
    /\ pc = "ready"
    /\ attention_tensors' = SelfAttention_forward(attn, attended_particles)
    /\ pc' = "done"
    /\ UNCHANGED <<attn, attended_particles, interpreter_vars, tied_vars, scoring_vars>>

NextAttention == AttentionForward

SpecAttention == InitAttention /\ [][NextAttention]_vars

(***************************************************************************)
(* Vocabulary of the properties: the shape of a query tree, read off the   *)
(* tree itself.                                                            *)
(***************************************************************************)
KnownTags == {"e", "p", "i", "u", "n"}

\* The argument positions of a node that hold the sub-queries the
\* interpreter descends into, in order.
SubPositions(q) ==
    CASE q[1] = "p" -> IF Len(q) >= 3 THEN <<3>> ELSE <<>>
      [] q[1] \in {"i", "u"} -> [k \in 1..(Len(q) - 1) |-> k + 1]
      [] q[1] = "n" -> IF Len(q) >= 2 THEN <<2>> ELSE <<>>
      [] OTHER -> <<>>

RECURSIVE HasBadTag(_)
HasBadTag(q) ==
    \/ q[1] \notin KnownTags
    \/ \E k \in 1..Len(SubPositions(q)) : HasBadTag(q[SubPositions(q)[k]])

\* A node with the wrong number of sub-queries: p without one, i or u with
\* fewer than two, n with a number other than one.
WrongArity(q) ==
    CASE q[1] = "p" -> Len(q) < 3
      [] q[1] \in {"i", "u"} -> Len(q) < 3
      [] q[1] = "n" -> Len(q) # 2
      [] OTHER -> FALSE

RECURSIVE HasWrongArity(_)
HasWrongArity(q) ==
    \/ WrongArity(q)
    \/ \E k \in 1..Len(SubPositions(q)) : HasWrongArity(q[SubPositions(q)[k]])

\* A well-formed query over a batch of B: known tags, right arities, every
\* anchor a flat batch of B entity ids, every projection a batch of B
\* relation ids.
RECURSIVE WellFormed(_, _)
WellFormed(q, B) ==
    CASE q[1] = "e" -> Len(q) = 2 /\ q[2] = <<B>>
      [] q[1] = "p" -> Len(q) = 3 /\ q[2] = <<B>> /\ WellFormed(q[3], B)
      [] q[1] \in {"i", "u"} ->
            Len(q) >= 3 /\ \A k \in 2..Len(q) : WellFormed(q[k], B)
      [] q[1] = "n" -> Len(q) = 2 /\ WellFormed(q[2], B)
      [] OTHER -> FALSE

RECURSIVE NodeAt(_, _)
NodeAt(q, at) == IF at = <<>> THEN q ELSE NodeAt(q[at[1]], Tail(at))

RECURSIVE Flatten(_)
Flatten(seqs) == IF seqs = <<>> THEN <<>> ELSE seqs[1] \o Flatten(Tail(seqs))

\* The positions of the nodes of q in pre-order, siblings left to right.
RECURSIVE PreOrder(_, _)
PreOrder(q, at) ==
    <<at>> \o Flatten([k \in 1..Len(SubPositions(q)) |->
                          PreOrder(q[SubPositions(q)[k]], at \o <<SubPositions(q)[k]>>)])

RECURSIVE Sum(_)
Sum(ns) == IF ns = <<>> THEN 0 ELSE ns[1] + Sum(Tail(ns))

\* The number of anchors of q.
RECURSIVE AnchorCount(_)
AnchorCount(q) ==
    IF q[1] = "e" THEN 1
    ELSE Sum([k \in 1..Len(SubPositions(q)) |-> AnchorCount(q[SubPositions(q)[k]])])

EventsOf(ops) == SelectSeq(log, LAMBDA e : e.op \in ops)

EventsAt(ops, at) == SelectSeq(log, LAMBDA e : e.op \in ops /\ e.at = at)

\* The positions forward was called on, in call order.
ForwardCalls == [k \in 1..Len(EventsOf({"forward"})) |-> EventsOf({"forward"})[k].at]

Done == pc = "done"

(***************************************************************************)
(* C1: a query with a tag outside {e, p, i, u, n} at the root or at any    *)
(* sub-query the interpreter descends into makes forward fail with an      *)
(* error; it returns neither None nor a particle set nor a loss.           *)
(***************************************************************************)
C1_InvalidTagFails == Done /\ HasBadTag(query) => IsError(result)

C1_Witness ==
    /\ Done /\ query[1] \in {"i", "u"} /\ Len(query) = 3
    /\ query[2][1] = "e" /\ query[3][1] = "x"
    /\ result = Raise("AssertionError")

(***************************************************************************)
(* C2: a query with a node of the wrong arity (p without a sub-query, i or *)
(* u with fewer than two, n with a number other than one) makes forward    *)
(* fail with an error.                                                     *)
(***************************************************************************)
C2_WrongArityFails == Done /\ HasWrongArity(query) => IsError(result)

C2_Reached == Done /\ HasWrongArity(query) /\ IsTensor(result)

(***************************************************************************)
(* C3: for every p node, forward first evaluates the sub-query and then    *)
(* applies exactly one operator: projection, called by forward, when the   *)
(* sub-query's tag is e; higher_projection when it is p, i, u or n, and    *)
(* higher_projection calls projection exactly once with the same relation  *)
(* ids.  (No operator is applied only when an exception ended the call.)   *)
(***************************************************************************)
ProjectionOps == {"projection", "higher_projection"}

\* The position in the log of the first event of `ops` at `at` (0: none).
FirstIndex(ops, at) ==
    IF \E k \in 1..Len(log) : log[k].op \in ops /\ log[k].at = at
    THEN CHOOSE k \in 1..Len(log) :
             /\ log[k].op \in ops /\ log[k].at = at
             /\ \A j \in 1..(k - 1) : ~(log[j].op \in ops /\ log[j].at = at)
    ELSE 0

\* The value a sub-query at `at` returned: the value of the last operator
\* its frame applied.
ReturnedAt(at) ==
    LET applied == EventsAt({"to_particles", "projection", "higher_projection",
                             "intersection", "union", "negation"}, at)
    IN  IF applied = <<>> THEN Raise("none")
        ELSE IF applied[1].op = "higher_projection" THEN applied[1].out
        ELSE applied[Len(applied)].out

ProjectionDispatch(at) ==
    LET q == NodeAt(query, at)
        ops == EventsAt(ProjectionOps, at)
        sub == at \o <<3>>
    IN  \/ ops = <<>> /\ IsError(result)
        \/ /\ q[3][1] = "e"
           /\ Len(ops) = 1
           /\ ops[1].op = "projection" /\ ops[1].caller = "forward"
           /\ ops[1].rel = q[2] /\ ops[1].ins = <<ReturnedAt(sub)>>
           /\ FirstIndex({"forward"}, sub) < FirstIndex(ProjectionOps, at)
           /\ FirstIndex({"to_particles"}, sub) < FirstIndex(ProjectionOps, at)
        \/ /\ q[3][1] \in {"p", "i", "u", "n"}
           /\ Len(ops) = 2
           /\ ops[1].op = "higher_projection" /\ ops[1].caller = "forward"
           /\ ops[1].rel = q[2] /\ ops[1].ins = <<ReturnedAt(sub)>>
           /\ ops[2].op = "projection" /\ ops[2].caller = "higher_projection"
           /\ ops[2].rel = q[2]
           /\ ops[2].out = ops[1].out
           /\ FirstIndex({"forward"}, sub) < FirstIndex(ProjectionOps, at)

C3_ProjectionDispatch ==
    Done => \A k \in 1..Len(ForwardCalls) :
                LET at == ForwardCalls[k]
                IN  NodeAt(query, at)[1] = "p" /\ Len(NodeAt(query, at)) >= 3
                        => ProjectionDispatch(at)

C3_Witness ==
    /\ Done /\ IsTensor(result)
    /\ query[1] = "p" /\ query[3][1] = "p" /\ query[3][3][1] = "e"
    /\ Len(EventsAt({"higher_projection"}, <<>>)) = 1
    /\ Len(EventsAt({"projection"}, <<>>)) = 1
    /\ Len(EventsAt(ProjectionOps, <<3>>)) = 1

(***************************************************************************)
(* C4: projection, higher_projection and negation return as many particles *)
(* as they are given, intersection and union return the sum of their       *)
(* operands' particle counts, and every operator's output has the batch    *)
(* size and the last dimension of its input.                               *)
(***************************************************************************)
CountOf(v) == v.shape[2]

OperatorKeepsShape(e) ==
    /\ Len(e.out.shape) = 3
    /\ e.out.shape[1] = e.ins[1].shape[1]
    /\ e.out.shape[3] = e.ins[1].shape[3]
    /\ IF e.op \in {"intersection", "union"}
       THEN CountOf(e.out) = Sum([k \in 1..Len(e.ins) |-> CountOf(e.ins[k])])
       ELSE CountOf(e.out) = CountOf(e.ins[1])

C4_OperatorsKeepShape ==
    Done => \A k \in 1..Len(log) :
                /\ log[k].op \in {"projection", "higher_projection", "negation",
                                  "intersection", "union"}
                /\ IsTensor(log[k].out)
                => OperatorKeepsShape(log[k])

C4_Reached ==
    /\ Done
    /\ \E k \in 1..Len(log) :
           /\ log[k].op = "projection" /\ IsTensor(log[k].out)
           /\ log[k].out.shape[1] # log[k].ins[1].shape[1]

(***************************************************************************)
(* C5, as stated: an anchor whose payload is a batch of B lists of entity  *)
(* ids, as in ("e", [[3]]), evaluates to a particle set of shape           *)
(* B x num_particles x embedding_size.                                     *)
(***************************************************************************)
C5_AnchorOfIdListsExpands ==
    Done /\ label = NoneValue /\ query[1] = "e" /\ Len(query[2]) = 2
        => result = Tensor(<<query[2][1], num_particles, embedding_size>>)

(***************************************************************************)
(* C5, amended: an anchor whose payload is a flat batch of B entity ids,   *)
(* as in ("e", [3]), evaluates to a particle set of shape                  *)
(* B x num_particles x embedding_size, made by ParticleCrusher.forward     *)
(* from the B x embedding_size embeddings; a batch of B lists of ids       *)
(* raises a ValueError there.                                              *)
(***************************************************************************)
C5_FlatAnchorExpands ==
    Done /\ label = NoneValue /\ query[1] = "e" =>
        LET made == EventsAt({"to_particles"}, <<>>)
        IN  /\ Len(made) = 1 /\ made[1].out = result
            /\ Len(query[2]) = 1 =>
                   /\ made[1].ins = <<Tensor(<<query[2][1], embedding_size>>)>>
                   /\ result = Tensor(<<query[2][1], num_particles, embedding_size>>)
            /\ Len(query[2]) = 2 => result = Raise("ValueError")

C5_Witness ==
    /\ Done /\ label = NoneValue /\ query = <<"e", <<1>>>>
    /\ result = Tensor(<<1, num_particles, embedding_size>>)

(***************************************************************************)
(* C7, as stated: forward on a well-formed query without a label returns   *)
(* the batch x num_entities score tensor.                                  *)
(***************************************************************************)
C7_InferenceReturnsScores ==
    \A B \in Batches :
        Done /\ label = NoneValue /\ WellFormed(query, B)
            => result = Tensor(<<B, num_entities>>)

(***************************************************************************)
(* C7, amended: forward on a well-formed query without a label returns the *)
(* root particle set itself (batch x particles x embedding_size) and calls *)
(* neither scoring nor loss_fnt; with a label (one gold index per batch    *)
(* element) it returns what loss_fnt returns, the loss of the              *)
(* batch x num_entities scores that scoring computes from the root         *)
(* particle set.                                                           *)
(***************************************************************************)
C7_InferenceReturnsParticles ==
    \A B \in Batches :
        Done /\ WellFormed(query, B) =>
            /\ label = NoneValue =>
                   /\ IsTensor(result) /\ result = ReturnedAt(<<>>)
                   /\ Len(result.shape) = 3
                   /\ result.shape[1] = B /\ result.shape[3] = embedding_size
                   /\ EventsOf({"scoring", "loss_fnt"}) = <<>>
            /\ label = Tensor(<<B>>) =>
                   /\ Len(EventsOf({"loss_fnt"})) = 1
                   /\ Len(EventsOf({"scoring"})) = 1
                   /\ EventsOf({"loss_fnt"})[1].ins = <<ReturnedAt(<<>>)>>
                   /\ EventsOf({"loss_fnt"})[1].out = result
                   /\ EventsOf({"scoring"})[1].ins = <<ReturnedAt(<<>>)>>
                   /\ EventsOf({"scoring"})[1].out = Tensor(<<B, num_entities>>)

C7_Witness ==
    /\ Done /\ label = NoneValue /\ WellFormed(query, MaxBatch)
    /\ query[1] = "u"
    /\ result = Tensor(<<MaxBatch, 2 * num_particles, embedding_size>>)

C6_TiedWeights ==
    /\ decoder_weight \in DOMAIN heap
    /\ entity_embedding_weight \in DOMAIN heap
    /\ heap[decoder_weight] = heap[entity_embedding_weight]
    /\ decoder_weight = entity_embedding_weight

C6_Witness ==
    /\ last_update = "decoder"
    /\ heap[entity_embedding_weight] = [e \in 1..num_entities |-> <<MaxWeight>>]

(***************************************************************************)
(* C8: the pooled score of every batch element and entity is the maximum   *)
(* of that entity's per-particle scores; raising one particle's score for  *)
(* one entity, all other per-particle scores fixed, never lowers that      *)
(* entity's pooled score and changes no other pooled score.                *)
(***************************************************************************)
RaisedScores(scores, b, n, e, d) == [scores EXCEPT ![b][n][e] = @ + d]

C8_MaxPool ==
    Done /\ scored_query_scores # <<>> =>
        \A b \in 1..Len(scored_query_scores), e \in 1..num_entities :
            /\ \A n \in 1..num_particles : scored_prediction[b][e] >= scored_query_scores[b][n][e]
            /\ \E n \in 1..num_particles : scored_prediction[b][e] = scored_query_scores[b][n][e]
            /\ \A n \in 1..num_particles, d \in 1..(MaxScore + 1) :
                   LET pooled == max_dim1(RaisedScores(scored_query_scores, b, n, e, d))
                   IN  /\ pooled[b][e] >= scored_prediction[b][e]
                       /\ \A e2 \in 1..num_entities :
                              e2 # e => pooled[b][e2] = scored_prediction[b][e2]

C8_Witness ==
    /\ Done /\ scored_query_scores # <<>>
    /\ scored_query_scores[1][1][1] < scored_query_scores[1][num_particles][1]
    /\ scored_prediction[1][1] = scored_query_scores[1][num_particles][1]
    /\ max_dim1(RaisedScores(scored_query_scores, 1, 1, 1, MaxScore + 1))[1][1]
           > scored_prediction[1][1]

(***************************************************************************)
(* C9: SelfAttention computes Q from the query weights, K from the key     *)
(* weights and V from the value weights.                                   *)
(***************************************************************************)
C9_SeparateProjections ==
    Done /\ attention_tensors # <<>> =>
        /\ attention_tensors.Q = LinearValues(attn.query, attended_particles)
        /\ attention_tensors.K = LinearValues(attn.key, attended_particles)
        /\ attention_tensors.V = LinearValues(attn.value, attended_particles)

C9_Reached ==
    /\ Done /\ attention_tensors # <<>>
    /\ attn.key # attn.query /\ attn.value # attn.query
    /\ attention_tensors.K # LinearValues(attn.key, attended_particles)
    /\ attention_tensors.V # LinearValues(attn.value, attended_particles)

====
